---------------------------- MODULE Spec2Model ----------------------------
(***************************************************************************)
(* The site geo DAO (insert, findById, findAll, findByGeo,                 *)
(* findByGeoWithExcessCapacity) over a key-value store, its site record    *)
(* codec (flatten / remap), and the metric DAO's insert-and-retrieve test. *)
(*                                                                         *)
(* Numbers.  A JavaScript number is modelled as a fixed-point decimal with *)
(* one fractional digit: the integer n stands for n/10 (45 is 4.5, 10 is   *)
(* 1, -122 is -12.2).  Strings are sequences of one-character strings.     *)
(*                                                                         *)
(* Steps.  An async function runs from one await to the next; one action   *)
(* is the continuation that runs after a reply together with the store's   *)
(* execution of the command that continuation issues.                      *)
(***************************************************************************)
EXTENDS Integers, Sequences, FiniteSets, TLC

\* ------------------------------------------------------------------ bounds

\* Sites have ids 1..MaxId.
MaxId == 2
\* getTemporaryKey may be called this many times in one behaviour.
MaxTmpKeys == 4
\* The metric test inserts at most this many per-minute readings.
MaxReadings == 5

\* ------------------------------------------------------- program constants

\* part_001 line 6, in tenths: 0.2.
capacityThreshold == 2
\* part_001 lines 212-213: EXPIRE key 30.
TempKeyTTL == 30
\* part_000 line 34: consecutive sample readings are 60 seconds apart.
ReadingStep == 60

\* ------------------------------------------------------ numbers <-> strings

null == [isNull |-> TRUE]
NaN == "NaN"

Digits == <<"0", "1", "2", "3", "4", "5", "6", "7", "8", "9">>

IsDigit(ch) == \E d \in 1..10 : Digits[d] = ch

DigitValue(ch) == (CHOOSE d \in 1..10 : Digits[d] = ch) - 1

RECURSIVE NatToString(_)
NatToString(n) ==
    IF n < 10 THEN <<Digits[n + 1]>>
    ELSE NatToString(n \div 10) \o <<Digits[(n % 10) + 1]>>

\* Number.prototype.toString, as the store client applies it to every hash
\* value and sorted-set member: 45 -> "4.5", 30 -> "3", -122 -> "-12.2".
NumberToString(x) ==
    LET a == IF x < 0 THEN 0 - x ELSE x
    IN  (IF x < 0 THEN <<"-">> ELSE <<>>)
        \o NatToString(a \div 10)
        \o (IF a % 10 = 0 THEN <<>> ELSE <<".", Digits[(a % 10) + 1]>>)

RECURSIVE DigitPrefix(_)
DigitPrefix(s) ==
    IF s # <<>> /\ IsDigit(Head(s)) THEN <<Head(s)>> \o DigitPrefix(Tail(s))
    ELSE <<>>

RECURSIVE DigitsValue(_)
DigitsValue(ds) ==
    IF ds = <<>> THEN 0
    ELSE 10 * DigitsValue(SubSeq(ds, 1, Len(ds) - 1)) + DigitValue(ds[Len(ds)])

HasSign(s) == s # <<>> /\ Head(s) \in {"-", "+"}

Unsigned(s) == IF HasSign(s) THEN Tail(s) ELSE s

Signed(s, v) == IF s # <<>> /\ Head(s) = "-" THEN 0 - v ELSE v

\* parseInt(s, 10): optional sign, then the longest run of digits; the rest of
\* the string (a fraction included) is ignored.
parseInt(s) ==
    LET ds == DigitPrefix(Unsigned(s))
    IN  IF ds = <<>> THEN NaN ELSE Signed(s, 10 * DigitsValue(ds))

\* parseFloat(s): optional sign, digits, optional "." and digits.
parseFloat(s) ==
    LET body == Unsigned(s)
        ds   == DigitPrefix(body)
        rest == SubSeq(body, Len(ds) + 1, Len(body))
        fs   == IF rest # <<>> /\ Head(rest) = "." THEN DigitPrefix(Tail(rest))
                ELSE <<>>
    IN  IF ds = <<>> /\ fs = <<>> THEN NaN
        ELSE Signed(s, 10 * DigitsValue(ds)
                       + (IF fs = <<>> THEN 0 ELSE DigitValue(fs[1])))

\* String.prototype.toLowerCase on the letters a distance unit is written in.
LowerChar(ch) ==
    CASE ch = "K" -> "k"
      [] ch = "M" -> "m"
      [] ch = "I" -> "i"
      [] ch = "F" -> "f"
      [] ch = "T" -> "t"
      [] OTHER -> ch

toLowerCase(s) == [i \in 1..Len(s) |-> LowerChar(s[i])]

\* ------------------------------------------------------------- site codec

hasOwnProperty(obj, f) == f \in DOMAIN obj

\* part_001 lines 52-62.
flatten(site) ==
    IF hasOwnProperty(site, "coordinate")
    THEN [f \in (DOMAIN site \ {"coordinate"}) \cup {"lat", "lng"} |->
            IF f = "lat" THEN site.coordinate.lat
            ELSE IF f = "lng" THEN site.coordinate.lng
            ELSE site[f]]
    ELSE site

\* The capacity read as an integer.
ParseCapacityInt(s) == parseInt(s)

\* part_001 line 24: parseFloat(siteHash.capacity, 10).
ParseCapacity(s) == parseFloat(s)

\* part_001 lines 19-39.
remap(siteHash) ==
    LET parsed == [f \in DOMAIN siteHash |->
                     IF f \in {"id", "panels"} THEN parseInt(siteHash[f])
                     ELSE IF f = "capacity" THEN ParseCapacity(siteHash[f])
                     ELSE siteHash[f]]
    IN  IF hasOwnProperty(siteHash, "lat") /\ hasOwnProperty(siteHash, "lng")
        THEN [f \in (DOMAIN siteHash \ {"lat", "lng"}) \cup {"coordinate"} |->
                IF f = "coordinate"
                THEN [lat |-> parseFloat(siteHash.lat),
                      lng |-> parseFloat(siteHash.lng)]
                ELSE parsed[f]]
        ELSE parsed

\* What the store keeps for HMSET key obj: every field value as a string.
StoredHash(obj) == [f \in DOMAIN obj |-> NumberToString(obj[f])]


\* ------------------------------------------------------------ key-value store

SiteIds == {10 * i : i \in 1..MaxId}

\* The sites callers insert: for each id one with a coordinate and one without.
SiteOf(i) ==
    [id |-> 10 * i,
     panels |-> 10 * (i + 2),
     capacity |-> IF i % 2 = 1 THEN 45 ELSE 30,
     coordinate |-> [lat |-> 5, lng |-> 0 - (10 + i)]]

WithoutCoordinate(site) == [f \in DOMAIN site \ {"coordinate"} |-> site[f]]

Sites == {SiteOf(i) : i \in 1..MaxId}
           \cup {WithoutCoordinate(SiteOf(i)) : i \in 1..MaxId}

\* The keys of the key generator; the id part of a site key is the number the
\* caller passed or the member string the geo index returned, which name the
\* same key.
getSiteHashKey(id) == <<"sites", "info", id>>

\* A fresh key per call: the counter-th key handed out.
getTemporaryKey(counter) == counter + 1

\* HGETALL: the stored field map, or null when the key holds no hash.
hgetall(h, id) == h[id]

\* The score a geo index keeps for a member: an order code of its position.
GeoScore(pos) == (pos.lat + 900) * 3601 + (pos.lng + 1800)

\* Members of a sorted set (a function member -> score) by score, then member.
RECURSIVE SortedMembers(_, _)
SortedMembers(z, S) ==
    IF S = {} THEN <<>>
    ELSE LET m == CHOOSE a \in S :
                     \A b \in S : z[a] < z[b] \/ (z[a] = z[b] /\ a <= b)
         IN  <<m>> \o SortedMembers(z, S \ {m})

GeoScores(g) == [m \in DOMAIN g |-> GeoScore(g[m])]

\* ZRANGE key 0 -1.
zrange(z) == SortedMembers(z, DOMAIN z)

\* ZRANGEBYSCORE key min +inf.
zrangebyscore(z, min) == SortedMembers(z, {m \in DOMAIN z : z[m] >= min})

\* GEOADD key lng lat member.
geoadd(g, lng, lat, member) ==
    [m \in DOMAIN g \cup {member} |->
        IF m = member THEN [lat |-> lat, lng |-> lng] ELSE g[m]]

\* The store reads a unit in any letter case; lengths are in units of 10 m.
UnitLength(unit) ==
    LET u == toLowerCase(unit)
    IN  CASE u = <<"k", "m">> -> 100
          [] u = <<"m", "i">> -> 161
          [] OTHER -> 0

\* Distance test on a plane: a tenth of a degree is 1113 units of 10 m.
WithinRadius(pos, lng, lat, radius, unit) ==
    LET dlat == pos.lat - lat
        dlng == pos.lng - lng
        r    == radius * UnitLength(unit)
    IN  (dlat * dlat + dlng * dlng) * 1113 * 1113 <= r * r

\* GEORADIUS key lng lat radius unit: the members within the radius.
georadius(g, lng, lat, radius, unit) ==
    LET scores == GeoScores(g)
    IN  SortedMembers(scores,
            {m \in DOMAIN g : WithinRadius(g[m], lng, lat, radius, unit)})

Range(seq) == {seq[i] : i \in 1..Len(seq)}

\* Writing a sorted set to a key: an empty result removes the key, and a
\* written key carries no expiration.
StoreZset(t, key, z) ==
    IF DOMAIN z = {} THEN [k \in DOMAIN t \ {key} |-> t[k]]
    ELSE [k \in DOMAIN t \cup {key} |->
            IF k = key THEN [zset |-> z, ttl |-> 0] ELSE t[k]]

ZsetAt(t, key) == IF key \in DOMAIN t THEN t[key].zset ELSE << >>

\* GEORADIUS ... STORE dest.
georadiusStore(t, g, lng, lat, radius, unit, dest) ==
    LET members == Range(georadius(g, lng, lat, radius, unit))
    IN  StoreZset(t, dest, [m \in members |-> GeoScore(g[m])])

\* ZINTERSTORE dest 2 a <ranking> WEIGHTS wa wr.
zinterstore(t, dest, a, rank, wa, wr) ==
    LET za == ZsetAt(t, a)
    IN  StoreZset(t, dest,
            [m \in DOMAIN za \cap DOMAIN rank |-> wa * za[m] + wr * rank[m]])

\* EXPIRE key seconds: no effect on a key that does not exist.
expire(t, key, seconds) ==
    [k \in DOMAIN t |-> IF k = key THEN [t[k] EXCEPT !.ttl = seconds] ELSE t[k]]


\* ------------------------------------------------------------------- state

Callers == {"c1", "c2"}

Radii == {0, 7, 14}

Units == {<<"K", "M">>, <<"M", "I">>, <<"k", "m">>}

\* The searches callers make: from site 1's position and from a position one
\* tenth of a degree east of it, where no site is.
Queries == [lat : {5}, lng : {0 - 11, 0 - 10}, radius : Radii, unit : Units]

\* The searches for excess capacity: from site 1's position, over 7
\* kilometres (which reach site 1 alone) or 7 miles (which reach site 2 too).
ExcessQueries ==
    {q \in Queries : q.lng = 0 - 11 /\ q.radius = 7 /\ q.unit # <<"k", "m">>}

\* The scores the ranking's maintainer sets, in tenths: below the threshold
\* and at it.
Scores == {1, 2}

VARIABLES
    hashes,      \* site id -> the hash stored under the site's key, or null
    geo,         \* the geo index: member -> position
    ranking,     \* the capacity ranking: member -> score (in tenths)
    tmp,         \* the temporary keys that exist: key -> [zset, ttl]
    tmpCounter,  \* how many temporary keys the key generator has handed out
    call,        \* caller -> the DAO call it is in: its position and locals
    called,      \* history: the sites insert has been called with
    returned,    \* history: the sites whose insert has returned its key
    deleted,     \* history: the ids whose hash another client has deleted
    codec,       \* the codec round trip of one site
    metric,      \* the metric store: the readings inserted
    test         \* the metric test's position and locals

vars == <<hashes, geo, ranking, tmp, tmpCounter, call, called, returned,
          deleted, codec, metric, test>>

storeVars == <<hashes, geo, ranking, tmp, tmpCounter>>

otherVars == <<codec, metric, test>>

Idle ==
    [op |-> "none", pc |-> "idle", site |-> null, preHash |-> null,
     id |-> 0, q |-> null, unitSent |-> <<>>, siteIds |-> <<>>, looked |-> 0,
     sites |-> <<>>,
     result |-> null, error |-> "none", keys |-> null, snap |-> null]

CodecIdle == [pc |-> "idle", site |-> null, flat |-> null, stored |-> null,
              out |-> null]

TestIdle == [pc |-> "idle", now |-> 0, count |-> 0, limit |-> 0,
             inserted |-> 0, measurements |-> <<>>]

EmptyStore ==
    /\ hashes = [id \in SiteIds |-> null]
    /\ geo = << >>
    /\ ranking = << >>
    /\ tmp = << >>
    /\ tmpCounter = 0

Init ==
    /\ EmptyStore
    /\ call = [c \in Callers |-> Idle]
    /\ called = {}
    /\ returned = {}
    /\ deleted = {}
    /\ codec = CodecIdle
    /\ metric = {}
    /\ test = TestIdle

\* ------------------------------------------------------------------ insert

\* A hash write that never reaches the store.
WriteSiteHashDropped(h, site) == h

\* part_001 lines 74-76: HMSET of the flattened site under the site's key.
WriteSiteHash(h, site) == [h EXCEPT ![site.id] = StoredHash(flatten(site))]

\* part_001 lines 71-81: HMSET of the flattened site, then the coordinate
\* check in the continuation that follows the reply.
InsertHmset(c, site) ==
    /\ call[c].pc = "idle"
    /\ hashes' = WriteSiteHash(hashes, site)
    /\ call' = [call EXCEPT ![c] =
          IF ~hasOwnProperty(site, "coordinate")
          THEN [Idle EXCEPT !.op = "insert", !.pc = "failed", !.site = site,
                            !.preHash = hashes[site.id],
                            !.error = "Coordinate required for site geo insert!"]
          ELSE [Idle EXCEPT !.op = "insert", !.pc = "geoadd", !.site = site,
                            !.preHash = hashes[site.id]]]
    /\ called' = called \cup {site}
    /\ UNCHANGED <<geo, ranking, tmp, tmpCounter, returned, deleted, otherVars>>

\* part_001 lines 83-85: GEOADD, then the key is returned.
InsertGeoadd(c) ==
    /\ call[c].op = "insert" /\ call[c].pc = "geoadd"
    /\ LET site == call[c].site
       IN  /\ geo' = geoadd(geo, site.coordinate.lng, site.coordinate.lat, site.id)
           /\ call' = [call EXCEPT ![c].pc = "done",
                                   ![c].result = getSiteHashKey(site.id)]
           /\ returned' = returned \cup {site}
    /\ UNCHANGED <<hashes, ranking, tmp, tmpCounter, called, deleted, otherVars>>

\* part_001 line 83: the store fails the GEOADD; the rejection propagates.
InsertGeoaddFails(c) ==
    /\ call[c].op = "insert" /\ call[c].pc = "geoadd"
    /\ call' = [call EXCEPT ![c].pc = "failed", ![c].error = "store error"]
    /\ UNCHANGED <<storeVars, called, returned, deleted, otherVars>>

\* ---------------------------------------------------------------- findById

\* The two branches of the conditional exchanged.
FindByIdResultSwapped(siteHash) ==
    IF siteHash = null THEN remap(siteHash) ELSE null

\* part_001 line 100.
FindByIdResult(siteHash) == IF siteHash = null THEN siteHash ELSE remap(siteHash)

\* part_001 lines 94-101.
FindById(c, id) ==
    /\ call[c].pc = "idle"
    /\ LET siteHash == hgetall(hashes, id)
       IN  call' = [call EXCEPT ![c] =
              [Idle EXCEPT !.op = "findById", !.pc = "done", !.id = id,
                           !.result = FindByIdResult(siteHash)]]
    /\ UNCHANGED <<storeVars, called, returned, deleted, otherVars>>

\* ----------------------------------------------------------------- findAll

\* Every reply remapped, a missing hash's too.
RemapAll(results) == [i \in 1..Len(results) |-> remap(results[i])]

\* part_001 lines 126-133: the replies that hold a hash, remapped, in order.
RECURSIVE RemapFound(_)
RemapFound(results) ==
    IF results = <<>> THEN <<>>
    ELSE (IF Head(results) # null THEN <<remap(Head(results))>> ELSE <<>>)
         \o RemapFound(Tail(results))

\* part_001 lines 109-111: ZRANGE of the geo index.
FindAllZrange(c) ==
    /\ call[c].pc = "idle"
    /\ call' = [call EXCEPT ![c] =
          [Idle EXCEPT !.op = "findAll", !.pc = "batch",
                       !.siteIds = zrange(GeoScores(geo))]]
    /\ UNCHANGED <<storeVars, called, returned, deleted, otherVars>>

\* part_001 lines 113-135: one batch of HGETALLs, then the found are remapped.
FindAllBatch(c) ==
    /\ call[c].op = "findAll" /\ call[c].pc = "batch"
    /\ LET siteIds == call[c].siteIds
           results == [i \in 1..Len(siteIds) |-> hgetall(hashes, siteIds[i])]
       IN  call' = [call EXCEPT ![c].pc = "done",
                                ![c].sites = RemapFound(results),
                                ![c].result = RemapFound(results)]
    /\ UNCHANGED <<storeVars, called, returned, deleted, otherVars>>

\* --------------------------------------------------------------- findByGeo

\* The state of a lookup loop after the reply to the HGETALL of the next id:
\* the site is pushed when found, and the call returns after the last id.
AfterLookup(cl, siteHash) ==
    LET sites == IF siteHash # null THEN Append(cl.sites, remap(siteHash))
                 ELSE cl.sites
        last  == cl.looked + 1 = Len(cl.siteIds)
    IN  [cl EXCEPT !.sites = sites,
                   !.looked = cl.looked + 1,
                   !.pc = IF last THEN "done" ELSE "lookup",
                   !.result = IF last THEN sites ELSE null]

\* The unit passed on as the caller wrote it.
RadiusUnitAsGiven(radiusUnit) == radiusUnit

\* part_001 lines 150 and 192: radiusUnit.toLowerCase().
RadiusUnit(radiusUnit) == toLowerCase(radiusUnit)

\* part_001 lines 147-150 (and 163 when no id is in the radius).
FindByGeoRadius(c, q) ==
    /\ call[c].pc = "idle"
    /\ LET unit == RadiusUnit(q.unit)
           siteIds == georadius(geo, q.lng, q.lat, q.radius, unit)
       IN  call' = [call EXCEPT ![c] =
              [Idle EXCEPT !.op = "findByGeo", !.q = q, !.unitSent = unit,
                           !.siteIds = siteIds,
                           !.pc = IF siteIds = <<>> THEN "done" ELSE "lookup",
                           !.result = IF siteIds = <<>> THEN <<>> ELSE null]]
    /\ UNCHANGED <<storeVars, called, returned, deleted, otherVars>>


\* part_001 lines 154-163: the HGETALL of the next id in the radius.
FindByGeoLookup(c) ==
    /\ call[c].op = "findByGeo" /\ call[c].pc = "lookup"
    /\ LET siteId == call[c].siteIds[call[c].looked + 1]
       IN  call' = [call EXCEPT ![c] = AfterLookup(call[c], hgetall(hashes, siteId))]
    /\ UNCHANGED <<storeVars, called, returned, deleted, otherVars>>

\* ---------------------------------------------- findByGeoWithExcessCapacity

\* Two fixed scratch keys, the same for every call.
TemporaryKeysFixed(counter) == [radius |-> 1, capacity |-> 2]

\* part_001 lines 180-181: the two temporary keys of a call.
TemporaryKeys(counter) ==
    [radius |-> getTemporaryKey(counter),
     capacity |-> getTemporaryKey(counter + 1)]

\* The batch without the expiration of the second key.
SetOperationsPipelineOneExpire(t, g, rank, q, keys) ==
    LET t1 == georadiusStore(t, g, q.lng, q.lat, q.radius,
                             RadiusUnit(q.unit), keys.radius)
        t2 == zinterstore(t1, keys.capacity, keys.radius, rank, 0, 1)
    IN  expire(t2, keys.radius, TempKeyTTL)

\* part_001 lines 184-216: the batch, executed by the store as one unit.
SetOperationsPipeline(t, g, rank, q, keys) ==
    LET t1 == georadiusStore(t, g, q.lng, q.lat, q.radius,
                             RadiusUnit(q.unit), keys.radius)
        t2 == zinterstore(t1, keys.capacity, keys.radius, rank, 0, 1)
        t3 == expire(t2, keys.radius, TempKeyTTL)
    IN  expire(t3, keys.capacity, TempKeyTTL)

\* part_001 lines 176-216.
ExcessBatch(c, q) ==
    /\ call[c].pc = "idle"
    /\ tmpCounter + 2 <= MaxTmpKeys
    /\ LET keys == TemporaryKeys(tmpCounter)
       IN  /\ tmp' = SetOperationsPipeline(tmp, geo, ranking, q, keys)
           /\ call' = [call EXCEPT ![c] =
                 [Idle EXCEPT !.op = "findByGeoWithExcessCapacity",
                              !.pc = "read", !.q = q,
                              !.unitSent = RadiusUnit(q.unit), !.keys = keys,
                              !.snap = [geo |-> geo, ranking |-> ranking]]]
    /\ tmpCounter' = tmpCounter + 2
    /\ UNCHANGED <<hashes, geo, ranking, called, returned, deleted, otherVars>>

\* The score-range read made on the radius set.
ScoreRangeKeyRadius(keys) == keys.radius

\* part_001 line 219: the key whose members the call reads by score.
ScoreRangeKey(keys) == keys.capacity

\* part_001 lines 218-219 (and 232 when no id is selected).
ExcessRead(c) ==
    /\ call[c].op = "findByGeoWithExcessCapacity" /\ call[c].pc = "read"
    /\ LET siteIds == zrangebyscore(ZsetAt(tmp, ScoreRangeKey(call[c].keys)),
                                    capacityThreshold)
       IN  call' = [call EXCEPT ![c].siteIds = siteIds,
                                ![c].snap = null,
                                ![c].q = null,
                                ![c].pc = IF siteIds = <<>> THEN "done" ELSE "lookup",
                                ![c].result = IF siteIds = <<>> THEN <<>> ELSE null]
    /\ UNCHANGED <<storeVars, called, returned, deleted, otherVars>>

\* part_001 lines 223-232: the HGETALL of the next selected id.
ExcessLookup(c) ==
    /\ call[c].op = "findByGeoWithExcessCapacity" /\ call[c].pc = "lookup"
    /\ LET siteId == call[c].siteIds[call[c].looked + 1]
       IN  call' = [call EXCEPT ![c] = AfterLookup(call[c], hgetall(hashes, siteId))]
    /\ UNCHANGED <<storeVars, called, returned, deleted, otherVars>>

\* part_001 line 225: the store fails an HGETALL; the rejection propagates.
ExcessLookupFails(c) ==
    /\ call[c].op = "findByGeoWithExcessCapacity" /\ call[c].pc = "lookup"
    /\ call' = [call EXCEPT ![c] =
          [Idle EXCEPT !.op = call[c].op, !.pc = "failed",
                       !.keys = call[c].keys, !.error = "store error"]]
    /\ UNCHANGED <<storeVars, called, returned, deleted, otherVars>>

\* The caller stops waiting for a call that has sent its batch; the call's
\* continuation never runs.
Abandon(c) ==
    /\ call[c].op = "findByGeoWithExcessCapacity" /\ call[c].pc \in {"read", "lookup"}
    /\ call' = [call EXCEPT ![c] =
          [Idle EXCEPT !.op = call[c].op, !.pc = "abandoned",
                       !.keys = call[c].keys]]
    /\ UNCHANGED <<storeVars, called, returned, deleted, otherVars>>

\* ------------------------------------------------------------- environment

\* The caller takes the outcome of a finished call; its slot is free again.
Return(c) ==
    /\ call[c].pc \in {"done", "failed", "abandoned"}
    /\ call' = [call EXCEPT ![c] = Idle]
    /\ UNCHANGED <<storeVars, called, returned, deleted, otherVars>>

\* The subsystem that maintains the capacity ranking sets a site's score.
ExternalZadd(id, score) ==
    /\ ranking' = [m \in DOMAIN ranking \cup {id} |->
                      IF m = id THEN score ELSE ranking[m]]
    /\ UNCHANGED <<hashes, geo, tmp, tmpCounter, call, called, returned,
                   deleted, otherVars>>

\* Another client of the store deletes a site's hash.
ExternalDel(id) ==
    /\ hashes[id] # null
    /\ hashes' = [hashes EXCEPT ![id] = null]
    /\ deleted' = deleted \cup {id}
    /\ UNCHANGED <<geo, ranking, tmp, tmpCounter, call, called, returned, otherVars>>

\* Key is a temporary key of a call whose batch is executed and whose
\* score-range read is not.
AwaitsRead(key) ==
    \E c \in Callers :
        call[c].pc = "read" /\ key \in {call[c].keys.radius, call[c].keys.capacity}

\* The store removes a key whose expiration has run out.  The 30 seconds are
\* longer than the time from a call's batch to its score-range read, and of
\* two keys with an expiration the one whose EXPIRE came first runs out first
\* (keys are numbered in the order of their batches).
ExpireKey(key) ==
    /\ key \in DOMAIN tmp
    /\ tmp[key].ttl > 0
    /\ ~AwaitsRead(key)
    /\ \A k \in DOMAIN tmp : tmp[k].ttl > 0 => key <= k
    /\ tmp' = [k \in DOMAIN tmp \ {key} |-> tmp[k]]
    /\ UNCHANGED <<hashes, geo, ranking, tmpCounter, call, called, returned,
                   deleted, otherVars>>

\* ----------------------------------------------------------- specifications

InsertsBy(c) == \/ \E site \in Sites : InsertHmset(c, site)
                \/ InsertGeoadd(c)
                \/ InsertGeoaddFails(c)

Inserts == \E c \in Callers : InsertsBy(c)

Lookups == \E c \in Callers : \/ \E id \in SiteIds : FindById(c, id)
                              \/ FindAllZrange(c)
                              \/ FindAllBatch(c)

Returns == \E c \in Callers : Return(c)

Next == Inserts \/ Lookups \/ Returns

\* Inserts, findById and findAll by two callers on an empty store.
Spec == Init /\ [][Next]_vars

FindAlls == \E c \in Callers : FindAllZrange(c) \/ FindAllBatch(c)

Drift == \E id \in SiteIds : ExternalDel(id)

NextDrift == InsertsBy("c1") \/ FindAlls \/ Drift \/ Returns

\* Inserts by one caller and findAll by two, with another client that deletes
\* site hashes.
SpecDrift == Init /\ [][NextDrift]_vars

FindByGeos == \E c \in Callers : \/ \E q \in Queries : FindByGeoRadius(c, q)
                                 \/ FindByGeoLookup(c)

NextGeo == Inserts \/ FindByGeos \/ Returns

\* Inserts and findByGeo.
SpecGeo == Init /\ [][NextGeo]_vars

\* The store after the inserts of the sites with the ids of I have returned.
InsertedStore(I) ==
    /\ hashes = [id \in SiteIds |->
                   IF id \in I THEN StoredHash(flatten(SiteOf(id \div 10)))
                   ELSE null]
    /\ geo = [id \in I |-> SiteOf(id \div 10).coordinate]
    /\ ranking = << >>
    /\ tmp = << >>
    /\ tmpCounter = 0

InitExcess ==
    /\ \E I \in SUBSET SiteIds : InsertedStore(I)
    /\ call = [c \in Callers |-> Idle]
    /\ called = {}
    /\ returned = {}
    /\ deleted = {}
    /\ codec = CodecIdle
    /\ metric = {}
    /\ test = TestIdle

Excesses == \E c \in Callers : \/ \E q \in ExcessQueries : ExcessBatch(c, q)
                               \/ ExcessRead(c)
                               \/ ExcessLookup(c)

Rankings == \E id \in SiteIds, score \in Scores : ExternalZadd(id, score)

Expirations == \E key \in 1..MaxTmpKeys : ExpireKey(key)

NextExcess == Excesses \/ Rankings \/ Expirations \/ Returns

\* findByGeoWithExcessCapacity by two callers on a store of inserted sites,
\* with the ranking's maintainer and the store's expiry of keys.
SpecExcess == InitExcess /\ [][NextExcess]_vars

Outcomes == \/ \E q \in ExcessQueries : ExcessBatch("c1", q)
            \/ ExcessRead("c1")
            \/ ExcessLookup("c1")
            \/ ExcessLookupFails("c1")
            \/ Abandon("c1")
            \/ Return("c1")

NextExpiry == Outcomes \/ Rankings \/ Expirations

\* One caller's findByGeoWithExcessCapacity calls with every outcome: the call
\* returns, fails in a lookup, or is abandoned.  The event loop runs a
\* continuation whose reply has arrived, and the store removes a key whose
\* expiration has run out.
SpecExpiry ==
    /\ InitExcess
    /\ [][NextExpiry]_vars
    /\ WF_vars(ExcessRead("c1"))
    /\ \A key \in 1..MaxTmpKeys : WF_vars(ExpireKey(key))

\* ------------------------------------------------------- codec round trip

\* The sites whose round trip is taken: integers and fractions, zero, negative
\* and multi-digit values, with and without a coordinate.
CodecSites ==
    LET full == [id : SiteIds, panels : {0, 30, 120}, capacity : {0, 5, 45, 30, 105},
                 coordinate : [lat : {0 - 5, 0, 377}, lng : {0 - 1222, 5}]]
    IN  full \cup {WithoutCoordinate(s) : s \in full}

\* part_001 lines 52-62 and 76: the site is flattened and the store keeps
\* every value as a string.
CodecEncode(site) ==
    /\ codec.pc = "idle"
    /\ codec' = [CodecIdle EXCEPT !.pc = "encoded", !.site = site,
                                  !.flat = flatten(site),
                                  !.stored = StoredHash(flatten(site))]
    /\ UNCHANGED <<storeVars, call, called, returned, deleted, metric, test>>

\* part_001 lines 19-39: the stored hash is remapped.
CodecDecode ==
    /\ codec.pc = "encoded"
    /\ codec' = [codec EXCEPT !.pc = "decoded", !.out = remap(codec.stored)]
    /\ UNCHANGED <<storeVars, call, called, returned, deleted, metric, test>>

CodecReset ==
    /\ codec.pc = "decoded"
    /\ codec' = CodecIdle
    /\ UNCHANGED <<storeVars, call, called, returned, deleted, metric, test>>

NextCodec == (\E site \in CodecSites : CodecEncode(site)) \/ CodecDecode \/ CodecReset

\* flatten, the store's strings and remap, applied to one site after another.
SpecCodec == Init /\ [][NextCodec]_vars

\* ------------------------------------------------------------ metric test

\* The times at which the test starts (seconds): early in a day, so that the
\* readings reach into the day before, and late in one.
Nows == {86400 + 90, 86400 + 80000}

\* part_000 lines 20-35: count readings, the n-th taken n minutes before now
\* with value n.
sampleReadingsAhead(now, count) ==
    [k \in 1..count |->
        [siteId |-> 1, whUsed |-> k - 1, whGenerated |-> k - 1, tempC |-> k - 1,
         dateTime |-> now + ReadingStep * (k - 1)]]

sampleReadings(now, count) ==
    [k \in 1..count |->
        [siteId |-> 1, whUsed |-> k - 1, whGenerated |-> k - 1, tempC |-> k - 1,
         dateTime |-> now - ReadingStep * (k - 1)]]

\* The metric DAO's insert: the reading is kept.
metricInsert(m, reading) == m \cup {reading}

\* The metric DAO's getRecent: the limit most recent measurements of the unit
\* for the site that are not later than timestamp, the oldest of them first.
RECURSIVE MostRecent(_, _, _)
MostRecent(S, unit, limit) ==
    IF limit = 0 \/ S = {} THEN <<>>
    ELSE LET r == CHOOSE a \in S : \A b \in S : b.dateTime <= a.dateTime
         IN  MostRecent(S \ {r}, unit, limit - 1)
             \o <<[siteId |-> r.siteId, dateTime |-> r.dateTime,
                   unit |-> unit, value |-> r[unit]]>>

getRecent(m, siteId, unit, timestamp, limit) ==
    MostRecent({r \in m : r.siteId = siteId /\ r.dateTime <= timestamp},
               unit, limit)

\* part_000 lines 16-36 and 51: a test starts with its sample readings made.
TestStart(now, count, limit) ==
    /\ test.pc = "idle"
    /\ test' = [TestIdle EXCEPT !.pc = "insert", !.now = now, !.count = count,
                                !.limit = limit]
    /\ UNCHANGED <<storeVars, call, called, returned, deleted, codec, metric>>

\* part_000 lines 52-54: the next sample reading is inserted.
TestInsert ==
    /\ test.pc = "insert"
    /\ test.inserted < test.count
    /\ metric' = metricInsert(metric,
                     sampleReadings(test.now, test.count)[test.inserted + 1])
    /\ test' = [test EXCEPT !.inserted = test.inserted + 1]
    /\ UNCHANGED <<storeVars, call, called, returned, deleted, codec>>

\* part_000 line 57: the measurements are retrieved, at the time it is then.
TestRetrieve(delay) ==
    /\ test.pc = "insert"
    /\ test.inserted = test.count
    /\ test' = [test EXCEPT !.pc = "retrieved",
                   !.measurements = getRecent(metric, 1, "whGenerated",
                                              test.now + delay, test.limit)]
    /\ UNCHANGED <<storeVars, call, called, returned, deleted, codec, metric>>

\* part_000 lines 38-44: afterEach deletes the test's keys.
TestAfterEach ==
    /\ test.pc = "retrieved"
    /\ metric' = {}
    /\ test' = TestIdle
    /\ UNCHANGED <<storeVars, call, called, returned, deleted, codec>>

NextMetric ==
    \/ \E now \in Nows, count \in 1..MaxReadings :
          \E limit \in 1..count : TestStart(now, count, limit)
    \/ TestInsert
    \/ \E delay \in {0, 45} : TestRetrieve(delay)
    \/ TestAfterEach

\* The metric test: insert the sample readings, retrieve, clean up.
SpecMetric == Init /\ [][NextMetric]_vars

\* ------------------------------------------------------------------ claims

\* C1 (as claimed): an insert of a site without a coordinate fails with the
\* coordinate error and has written nothing: the hash under the site's key is
\* what it was before the call, and the geo index has no entry the call added.
C1_InsertWithoutCoordinateWritesNothing ==
    \A c \in Callers :
        (call[c].op = "insert" /\ call[c].pc = "failed"
            /\ ~hasOwnProperty(call[c].site, "coordinate"))
        => (hashes[call[c].site.id] = call[c].preHash)

\* C7: findById of an id insert was never called with returns null and does
\* not fail; findById of an id whose insert has returned returns a site with
\* that id that insert was called with, never null.
C7_FindByIdSentinel ==
    [][\A c \in Callers :
          (call[c].pc = "idle" /\ call'[c].op = "findById")
          => LET id == call'[c].id
             IN  /\ call'[c].pc = "done"
                 /\ ((\A s \in called : s.id # id) => (call'[c].result = null))
                 /\ ((\E s \in returned : s.id = id)
                      => (\E s \in called : s.id = id /\ call'[c].result = s))]_vars

C7_Witness ==
    \E c, d \in Callers :
        /\ call[c].op = "findById" /\ call[c].pc = "done"
        /\ call[c].result = null
        /\ \A s \in called : s.id # call[c].id
        /\ call[d].op = "findById" /\ call[d].pc = "done"
        /\ \E s \in returned : s.id = call[d].id /\ call[d].result = s

\* C10: every id in the geo index has a hash record, in every state of every
\* interleaving of inserts, between the two writes of an insert and after a
\* failed geo-index write included.
C10_GeoEntryHasHash == \A m \in DOMAIN geo : hashes[m] # null

C10_Witness ==
    \E c, d \in Callers :
        /\ call[c].op = "insert" /\ call[c].pc = "failed"
        /\ call[c].error = "store error"
        /\ hashes[call[c].site.id] # null
        /\ call[c].site.id \notin DOMAIN geo
        /\ call[d].op = "insert" /\ call[d].pc = "geoadd"
        /\ call[d].site.id \notin DOMAIN geo
        /\ DOMAIN geo # {}


\* The position lies within the radius of the search, the unit read in any
\* letter case (lengths in units of 10 m).
InSearchRadius(pos, q) ==
    LET unit == IF q.unit \in {<<"K", "M">>, <<"k", "m">>} THEN 100 ELSE 161
        d2   == (pos.lat - q.lat) * (pos.lat - q.lat)
                  + (pos.lng - q.lng) * (pos.lng - q.lng)
    IN  d2 * 1113 * 1113 <= (q.radius * unit) * (q.radius * unit)

Ids(sites) == [i \in 1..Len(sites) |-> sites[i].id]

\* C2: the ids findByGeoWithExcessCapacity selects are exactly the members of
\* the geo index within the radius whose ranking score is at least 0.2 (the
\* index and the ranking as the batch found them), and the call returns
\* exactly the sites with these ids; when the selection is empty it returns
\* the empty sequence and does not fail.
C2_ExcessCapacitySelection ==
    [][\A c \in Callers :
          /\ ( (call[c].pc = "read" /\ call'[c].pc \in {"lookup", "done"})
               => (LET snap == call[c].snap
                       expected == {m \in DOMAIN snap.geo :
                                      /\ InSearchRadius(snap.geo[m], call[c].q)
                                      /\ m \in DOMAIN snap.ranking
                                      /\ snap.ranking[m] >= 2}
                   IN  /\ Range(call'[c].siteIds) = expected
                       /\ Len(call'[c].siteIds) = Cardinality(expected)
                       /\ ((expected = {}) => (/\ call'[c].pc = "done"
                                               /\ call'[c].result = <<>>))) )
          /\ ( (call[c].op = "findByGeoWithExcessCapacity"
                  /\ call[c].pc = "lookup" /\ call'[c].pc = "done")
               => (/\ Ids(call'[c].result) = call'[c].siteIds
                   /\ \A i \in 1..Len(call'[c].result) :
                         call'[c].result[i] = SiteOf(call'[c].siteIds[i] \div 10)) )
      ]_vars

\* A call has returned one site while the radius held two and both were ranked.
C2_Witness ==
    \E c \in Callers :
        /\ call[c].op = "findByGeoWithExcessCapacity" /\ call[c].pc = "done"
        /\ Len(call[c].result) = 1
        /\ call[c].keys.radius \in DOMAIN tmp
        /\ Cardinality(DOMAIN tmp[call[c].keys.radius].zset) = 2
        /\ call[c].keys.capacity \in DOMAIN tmp
        /\ Cardinality(DOMAIN tmp[call[c].keys.capacity].zset) = 2

\* The ids a call selects when it runs alone: its batch on a store with no
\* temporary keys, then its score-range read.
AloneIds(snap, q) ==
    LET keys == [radius |-> 1, capacity |-> 2]
        t    == SetOperationsPipeline(<< >>, snap.geo, snap.ranking, q, keys)
    IN  zrangebyscore(ZsetAt(t, keys.capacity), capacityThreshold)

KeysOf(c) == IF call[c].keys = null THEN {}
             ELSE {call[c].keys.radius, call[c].keys.capacity}

\* C3: a call's two temporary keys differ from each other, from the keys of
\* the other caller's call and from every key in the store when the call
\* takes them; and a call whose commands interleave with another call's
\* selects the ids it would select alone.
C3_ConcurrentCallsIsolated ==
    [][\A c \in Callers :
          /\ ( (call[c].pc = "idle" /\ call'[c].pc = "read")
               => (/\ call'[c].keys.radius # call'[c].keys.capacity
                   /\ KeysOf(c)' \cap DOMAIN tmp = {}
                   /\ \A d \in Callers \ {c} : KeysOf(c)' \cap KeysOf(d) = {}) )
          /\ ( (call[c].pc = "read" /\ call'[c].pc \in {"lookup", "done"})
               => (call'[c].siteIds = AloneIds(call[c].snap, call[c].q)) )
      ]_vars

\* Both calls are between batch and read, with different searches, and the
\* second batch ran after the ranking changed.
C3_Witness ==
    /\ \A c \in Callers : call[c].pc = "read"
    /\ call["c1"].q # call["c2"].q
    /\ call["c1"].snap.ranking # call["c2"].snap.ranking
    /\ \A c \in Callers : call[c].keys.capacity \in DOMAIN tmp
    /\ tmp[call["c1"].keys.capacity].zset # tmp[call["c2"].keys.capacity].zset

\* C8: every temporary key in the store has a 30-second expiration; no step
\* of a DAO call removes a temporary key; and every temporary key in the
\* store is eventually gone, whether its call returns, fails or is abandoned.
C8_TemporaryKeysExpire ==
    /\ [](\A key \in DOMAIN tmp : tmp[key].ttl = 30)
    /\ [][(DOMAIN tmp \ DOMAIN tmp' # {}) => (call' = call)]_vars
    /\ \A key \in 1..MaxTmpKeys :
          ((key \in DOMAIN tmp) ~> (key \notin DOMAIN tmp))

\* The caller's second call has failed in a lookup, after it had selected an
\* id from its second key, and no temporary key remains in the store.
C8_Witness ==
    /\ call["c1"].op = "findByGeoWithExcessCapacity"
    /\ call["c1"].pc = "failed"
    /\ call["c1"].keys.radius = 3
    /\ DOMAIN tmp = {}


RECURSIVE WithHash(_, _)
WithHash(ids, h) ==
    IF ids = <<>> THEN <<>>
    ELSE (IF h[Head(ids)] # null THEN <<Head(ids)>> ELSE <<>>)
         \o WithHash(Tail(ids), h)

\* C4: findAll reads the ids of the geo index in the index's order and
\* returns, in that order, one site for every id read whose hash exists, each a
\* site insert was called with, and none for an id whose hash is missing;
\* when every insert called has returned, for distinct ids, and nothing else
\* has written, it returns exactly the sites inserted, one per insert.
C4_FindAllReturnsIndexedSites ==
    [][\A c \in Callers :
          /\ ( (call[c].pc = "idle" /\ call'[c].op = "findAll")
               => (LET ids == call'[c].siteIds
                   IN  /\ Range(ids) = DOMAIN geo
                       /\ Len(ids) = Cardinality(DOMAIN geo)
                       /\ \A i, j \in 1..Len(ids) :
                             (i < j) => (GeoScore(geo[ids[i]]) <= GeoScore(geo[ids[j]]))) )
          /\ ( (call[c].op = "findAll" /\ call[c].pc = "batch" /\ call'[c].pc = "done")
               => (LET found == WithHash(call[c].siteIds, hashes)
                       sites == call'[c].result
                   IN  /\ Len(sites) = Len(found)
                       /\ \A i \in 1..Len(sites) : sites[i] # null
                       /\ Ids(sites) = found
                       /\ \A i \in 1..Len(sites) : \E s \in called : sites[i] = s
                       /\ ( ( /\ deleted = {}
                              /\ called = returned
                              /\ \A s, t \in called : (s.id = t.id) => (s = t)
                              /\ Range(call[c].siteIds) = DOMAIN geo )
                            => ( /\ Range(sites) = returned
                                 /\ Len(sites) = Cardinality(returned) ) )) )
      ]_vars

\* One findAll has returned both inserted sites; another, after one of the two
\* hashes was deleted, has read both ids and returned one site.
C4_Witness ==
    \E c, d \in Callers :
        /\ call[c].op = "findAll" /\ call[c].pc = "done"
        /\ Len(call[c].siteIds) = 2 /\ Len(call[c].result) = 2
        /\ Range(call[c].result) = returned
        /\ call[d].op = "findAll" /\ call[d].pc = "done"
        /\ Len(call[d].siteIds) = 2 /\ Len(call[d].result) = 1

\* C5: findByGeo reads exactly the ids of the geo index whose position lies
\* within the radius of the search, having passed the unit on in lower case,
\* and returns exactly the sites with these ids, each a site insert was called
\* with; when no position lies within the radius it returns the empty
\* sequence.
C5_FindByGeoReturnsSitesInRadius ==
    [][\A c \in Callers :
          /\ ( (call[c].pc = "idle" /\ call'[c].op = "findByGeo")
               => (LET q == call'[c].q
                       expected == {m \in DOMAIN geo : InSearchRadius(geo[m], q)}
                   IN  /\ Range(call'[c].siteIds) = expected
                       /\ Len(call'[c].siteIds) = Cardinality(expected)
                       /\ call'[c].unitSent \in {<<"k", "m">>, <<"m", "i">>}
                       /\ ((expected = {}) => (/\ call'[c].pc = "done"
                                               /\ call'[c].result = <<>>))) )
          /\ ( (call[c].op = "findByGeo" /\ call[c].pc = "lookup"
                  /\ call'[c].pc = "done")
               => (/\ Ids(call'[c].result) = call'[c].siteIds
                   /\ \A i \in 1..Len(call'[c].result) :
                         \E s \in called : call'[c].result[i] = s) )
      ]_vars

\* One search over 7 miles has returned both sites while the same search over
\* 7 kilometres has returned one of them, and a search of radius 0 at the
\* position with no site has returned nothing.
C5_Witness ==
    \E c, d \in Callers :
        /\ call[c].op = "findByGeo" /\ call[c].pc = "done"
        /\ call[c].q.radius = 7 /\ call[c].q.unit = <<"M", "I">>
        /\ Len(call[c].result) = 2
        /\ call[d].op = "findByGeo" /\ call[d].pc = "done"
        /\ call[d].q.radius = 7 /\ call[d].q.unit = <<"K", "M">>
        /\ call[d].q.lng = call[c].q.lng
        /\ Len(call[d].result) = 1
        /\ Cardinality(DOMAIN geo) = 2


\* C6: for a site with a coordinate, remap of the stored strings of flatten
\* gives the site back: the same id, panels and capacity, the same coordinate,
\* and no flat lat or lng field.
C6_CodecRoundTrip ==
    (codec.pc = "decoded" /\ hasOwnProperty(codec.site, "coordinate"))
    => (/\ codec.out = codec.site
       /\ codec.out.id = codec.site.id
       /\ codec.out.panels = codec.site.panels
       /\ codec.out.capacity = codec.site.capacity
       /\ codec.out.coordinate = codec.site.coordinate
       /\ ~hasOwnProperty(codec.out, "lat")
       /\ ~hasOwnProperty(codec.out, "lng"))

\* A site with a fractional capacity, a negative fractional longitude and a
\* multi-digit panel count has made the round trip through strings.
C6_Witness ==
    /\ codec.pc = "decoded"
    /\ hasOwnProperty(codec.site, "coordinate")
    /\ codec.site.capacity = 45
    /\ codec.site.coordinate.lng = 0 - 1222
    /\ codec.site.panels = 120
    /\ codec.stored.capacity = <<"4", ".", "5">>
    /\ codec.stored.lng = <<"-", "1", "2", "2", ".", "2">>
    /\ hasOwnProperty(codec.flat, "lat")

=============================================================================
